---- MODULE Spec2Model ----
(***************************************************************************)
(* Model of scripts/make-constraint.py: a connectivity table (.ct) of a    *)
(* seed and a single-record FASTA file are turned into a folding           *)
(* constraint, in the RNAstructure or in the ViennaRNA grammar.            *)
(*                                                                         *)
(* Text is a sequence of one-character strings.  A Python list or string   *)
(* s is the TLA+ sequence holding s[0] at index 1.                         *)
(***************************************************************************)
EXTENDS Integers, Sequences, FiniteSets, TLC

VARIABLES
    pc,                \* position of main / of the reader loops
    status,            \* exit status of the process, -1 while it runs
    error,             \* the uncaught exception that ended the run, "" if none
    raisedIn,          \* the function that raised it, "" if none
    offset,            \* args.start (line 142)
    seed_length,       \* args.end - args.start (line 143)
    n,                 \* loadFasta: number of ">" lines seen
    seqid,             \* loadFasta: identifier of the last ">" line
    full_seq,          \* loadFasta: concatenation of the sequence lines
    firstLine,         \* loadPairs: the header line is still to come
    table,             \* the records of the .ct file parsed so far, <<x, symbol, y>>
    sequence,          \* loadPairs: the seed sequence
    pairs,             \* loadPairs: list of pairs <<x, y>>
    unpaired,          \* loadPairs: list of unpaired positions
    pairedPos,         \* loadPairs: set of partners seen
    pairs_filtered,    \* checkPairing: the set returned, in its iteration order
    n_noncanonical,    \* checkPairing: the count it prints
    pairs_adjusted,    \* adjustPairs: first component of the result
    unpaired_adjusted, \* adjustPairs: second component of the result
    format,            \* args.format, read at line 164
    const,             \* the text the serializer returned
    out                \* the output file: [state, text]

vars == <<pc, status, error, raisedIn, offset, seed_length, n, seqid, full_seq, firstLine,
          table, sequence, pairs, unpaired, pairedPos, pairs_filtered,
          n_noncanonical, pairs_adjusted, unpaired_adjusted, format, const, out>>

fastaVars == <<n, seqid, full_seq>>
loadVars == <<firstLine, table, sequence, pairs, unpaired, pairedPos>>
checkVars == <<pairs_filtered, n_noncanonical>>
adjustVars == <<pairs_adjusted, unpaired_adjusted>>
argVars == <<offset, seed_length>>
exitVars == <<status, error, raisedIn>>

(***************************************************************************)
(* Bounds of the model.                                                    *)
(***************************************************************************)
MaxRec == 3       \* records of a .ct file, reader on its own
MaxPos == 3       \* positions and partners named by a record
MainRec == 2      \* records of a .ct file in a run of main
MaxSeq == 2       \* length of the seed sequence given to checkPairing
MaxItems == 2     \* entries of the lists given to one function
MaxOff == 2       \* |offset|
FarOffset == 10   \* one offset that makes positions two digits long
MaxLen == 3       \* length of the full sequence
MaxHeaders == 2   \* ">" lines counted in the FASTA file

Nucleotides == {"A", "C", "G", "U"}
SeedSymbols == {"A", "U"}
LoadSymbols == {"N"}
FastaLines == {<<"A">>, <<"G", "C">>}
SeqIds == {<<"s", "1">>}

(***************************************************************************)
(* Python helpers.                                                         *)
(***************************************************************************)
\* s[i] of a Python sequence is defined for -len(s) <= i < len(s)
IndexOK(s, i) == -Len(s) <= i /\ i < Len(s)

\* s[i]; a negative index counts from the end
Item(s, i) == IF i >= 0 THEN s[i + 1] ELSE s[Len(s) + i + 1]

\* s[i] = v
SetItem(s, i, v) == [s EXCEPT ![IF i >= 0 THEN i + 1 ELSE Len(s) + i + 1] = v]

Range(s) == {s[i] : i \in 1..Len(s)}

\* sequences over S of length at most k
SeqsUpTo(S, k) == UNION {[1..m -> S] : m \in 0..k}

\* the orders in which a set may be iterated
Orderings(S) ==
    {f \in [1..Cardinality(S) -> S] : \A i, j \in 1..Cardinality(S) : f[i] = f[j] => i = j}

(***************************************************************************)
(* loadPairs (lines 10-34), one action per line of the file.               *)
(***************************************************************************)
\* lines 19-21: the first line is the header and is dropped unread
LoadHeaderLine ==
    /\ pc = "loadPairs"
    /\ firstLine
    /\ firstLine' = FALSE
    /\ UNCHANGED <<pc, exitVars, argVars, fastaVars, table, sequence, pairs,
                   unpaired, pairedPos, checkVars, adjustVars, format, const, out>>

\* lines 22-24: a blank line changes nothing
LoadBlankLine ==
    /\ pc = "loadPairs"
    /\ ~firstLine
    /\ UNCHANGED vars

\* lines 25-26: fields[4] of a short record raises IndexError, int() of a
\* non-integer field raises ValueError; neither is caught
LoadBadRecord ==
    /\ pc = "loadPairs"
    /\ ~firstLine
    /\ \E e \in {"IndexError", "ValueError"} : error' = e
    /\ raisedIn' = "loadPairs"
    /\ status' = 1
    /\ pc' = "exit"
    /\ UNCHANGED <<argVars, fastaVars, loadVars, checkVars, adjustVars, format, const, out>>

\* RecordStep with the else of line 29 lost: the partner of an unpaired record
\* is handled as a partner too
RecordStepNoElse(x, y, st) ==
    LET seen == st.pairedPos \cup {y}
    IN  [st EXCEPT !.unpaired = IF y = 0 THEN Append(@, x) ELSE @,
                   !.pairedPos = seen,
                   !.pairs = IF x \notin seen THEN Append(@, <<x, y>>) ELSE @]

\* RecordStep without the test of line 31: every paired record adds its pair
RecordStepNoSkip(x, y, st) ==
    IF y = 0
    THEN [st EXCEPT !.unpaired = Append(@, x)]
    ELSE [st EXCEPT !.pairedPos = @ \cup {y}, !.pairs = Append(@, <<x, y>>)]

\* lines 27-32: what one record <<x, s, y>> does to unpaired, pairedPos and pairs
RecordStep(x, y, st) ==
    IF y = 0
    THEN [st EXCEPT !.unpaired = Append(@, x)]
    ELSE LET seen == st.pairedPos \cup {y}
         IN  [st EXCEPT !.pairedPos = seen,
                        !.pairs = IF x \notin seen THEN Append(@, <<x, y>>) ELSE @]

\* lines 25-33: one well-formed record
LoadRecord(limit, symbols) ==
    /\ pc = "loadPairs"
    /\ ~firstLine
    /\ Len(table) < limit
    /\ \E x \in 1..MaxPos, y \in 0..MaxPos, s \in symbols :
         LET st == RecordStep(x, y, [pairs |-> pairs, unpaired |-> unpaired,
                                     pairedPos |-> pairedPos])
         IN  /\ table' = Append(table, <<x, s, y>>)
             /\ pairs' = st.pairs
             /\ unpaired' = st.unpaired
             /\ pairedPos' = st.pairedPos
             /\ sequence' = Append(sequence, s)
    /\ UNCHANGED <<pc, exitVars, argVars, fastaVars, firstLine, checkVars,
                   adjustVars, format, const, out>>

\* line 34: the file is exhausted, sequence, pairs and unpaired are returned
LoadReturn ==
    /\ pc = "loadPairs"
    /\ pc' = "checkPairing"
    /\ UNCHANGED <<exitVars, argVars, fastaVars, loadVars, checkVars, adjustVars,
                   format, const, out>>

LoadRecordAlone == LoadRecord(MaxRec, LoadSymbols)

\* the variables of each stage before the stage has run
NotExited == status = -1 /\ error = "" /\ raisedIn = ""
NoArgs == offset = 0 /\ seed_length = 0
NoFasta == n = 0 /\ seqid = <<>> /\ full_seq = <<>>
NoTable ==
    /\ firstLine = TRUE /\ table = <<>> /\ sequence = <<>>
    /\ pairs = <<>> /\ unpaired = <<>> /\ pairedPos = {}
NoCheck == pairs_filtered = <<>> /\ n_noncanonical = 0
NoAdjust == pairs_adjusted = <<>> /\ unpaired_adjusted = <<>>
NoOutput ==
    /\ format = "" /\ const = <<>>
    /\ out = [state |-> "untouched", text |-> <<>>]

\* the state at the call of loadPairs, nothing read yet
InitLoad ==
    /\ pc = "loadPairs"
    /\ NotExited /\ NoArgs /\ NoFasta /\ NoTable /\ NoCheck /\ NoAdjust /\ NoOutput

NextLoad ==
    \/ LoadHeaderLine
    \/ LoadBlankLine
    \/ LoadBadRecord
    \/ LoadRecordAlone
    \/ LoadReturn

SpecLoad == InitLoad /\ [][NextLoad]_vars

(***************************************************************************)
(* checkPairing (lines 67-83).                                             *)
(***************************************************************************)
\* lines 68-72
canonical ==
    {<<"A", "U">>, <<"A", "T">>,
     <<"C", "G">>,
     <<"G", "U">>, <<"G", "T">>, <<"G", "C">>,
     <<"T", "A">>, <<"T", "G">>,
     <<"U", "A">>, <<"U", "G">>}

\* lines 75-81 from the i-th pair on; acc = [ok, filtered, n], ok = FALSE once
\* seq[x-1] or seq[y-1] has raised IndexError
RECURSIVE CheckFrom(_, _, _, _)
CheckFrom(seq, ps, i, acc) ==
    IF i > Len(ps) THEN acc
    ELSE LET x == ps[i][1]
             y == ps[i][2]
         IN  IF ~IndexOK(seq, x - 1) \/ ~IndexOK(seq, y - 1)
             THEN [acc EXCEPT !.ok = FALSE]
             ELSE IF <<Item(seq, x - 1), Item(seq, y - 1)>> \in canonical
                  THEN CheckFrom(seq, ps, i + 1, [acc EXCEPT !.filtered = @ \cup {ps[i]}])
                  ELSE CheckFrom(seq, ps, i + 1, [acc EXCEPT !.n = @ + 1])

\* lines 75-81 reading seq[x] and seq[y]: the positions taken as 0-based
RECURSIVE CheckFromZeroBased(_, _, _, _)
CheckFromZeroBased(seq, ps, i, acc) ==
    IF i > Len(ps) THEN acc
    ELSE LET x == ps[i][1]
             y == ps[i][2]
         IN  IF ~IndexOK(seq, x) \/ ~IndexOK(seq, y)
             THEN [acc EXCEPT !.ok = FALSE]
             ELSE IF <<Item(seq, x), Item(seq, y)>> \in canonical
                  THEN CheckFromZeroBased(seq, ps, i + 1, [acc EXCEPT !.filtered = @ \cup {ps[i]}])
                  ELSE CheckFromZeroBased(seq, ps, i + 1, [acc EXCEPT !.n = @ + 1])

checkPairingZeroBased(seq, ps) ==
    CheckFromZeroBased(seq, ps, 1, [ok |-> TRUE, filtered |-> {}, n |-> 0])

\* lines 67-83: [ok, filtered, n]; filtered is the set returned, n the count printed
checkPairing(seq, ps) == CheckFrom(seq, ps, 1, [ok |-> TRUE, filtered |-> {}, n |-> 0])

\* line 154; the set returned is kept in the order in which it will be iterated
DoCheckPairing ==
    /\ pc = "checkPairing"
    /\ LET r == checkPairing(sequence, pairs)
       IN  IF r.ok
           THEN /\ pairs_filtered' \in Orderings(r.filtered)
                /\ n_noncanonical' = r.n
                /\ pc' = "lengthCheck"
                /\ UNCHANGED exitVars
           ELSE /\ error' = "IndexError"
                /\ raisedIn' = "checkPairing"
                /\ status' = 1
                /\ pc' = "exit"
                /\ UNCHANGED checkVars
    /\ UNCHANGED <<argVars, fastaVars, loadVars, adjustVars, format, const, out>>

(***************************************************************************)
(* adjustPairs (lines 55-64).                                              *)
(***************************************************************************)
\* adjustPairs adding the offset to the pairs only
adjustPairsOnlyPairs(ps, us, o) ==
    [pairs |-> [i \in 1..Len(ps) |-> <<ps[i][1] + o, ps[i][2] + o>>],
     unpaired |-> us]

\* lines 55-64
adjustPairs(ps, us, o) ==
    [pairs |-> [i \in 1..Len(ps) |-> <<ps[i][1] + o, ps[i][2] + o>>],
     unpaired |-> [i \in 1..Len(us) |-> us[i] + o]]

\* line 162
DoAdjustPairs ==
    /\ pc = "adjust"
    /\ LET r == adjustPairs(pairs_filtered, unpaired, offset)
       IN  /\ pairs_adjusted' = r.pairs
           /\ unpaired_adjusted' = r.unpaired
    /\ pc' = "open"
    /\ UNCHANGED <<exitVars, argVars, fastaVars, loadVars, checkVars, format, const, out>>

(***************************************************************************)
(* makeRNAstructureConstraint (lines 88-105).                              *)
(***************************************************************************)
Digit == <<"0", "1", "2", "3", "4", "5", "6", "7", "8", "9">>

\* "{}".format(k) of an integer k >= 0
RECURSIVE NatText(_)
NatText(k) == IF k < 10 THEN <<Digit[k + 1]>> ELSE NatText(k \div 10) \o <<Digit[(k % 10) + 1]>>

\* "{}".format(k) of an integer
IntText(k) == IF k < 0 THEN <<"-">> \o NatText(-k) ELSE NatText(k)

\* lines 95-96 from the i-th entry on
RECURSIVE SSText(_, _)
SSText(us, i) ==
    IF i > Len(us) THEN <<>> ELSE IntText(us[i]) \o <<"\n">> \o SSText(us, i + 1)

\* lines 100-101 from the i-th pair on
RECURSIVE PairsText(_, _)
PairsText(ps, i) ==
    IF i > Len(ps) THEN <<>>
    ELSE IntText(ps[i][1]) \o <<" ">> \o IntText(ps[i][2]) \o <<"\n">> \o PairsText(ps, i + 1)

\* makeRNAstructureConstraint without the sentinel of line 97
makeRNAstructureConstraintNoSentinel(ps, us) ==
    <<"D", "S", ":", "\n", "-", "1", "\n">>
    \o <<"S", "S", ":", "\n">>
    \o SSText(us, 1)
    \o <<"M", "o", "d", ":", "\n", "-", "1", "\n">>
    \o <<"P", "a", "i", "r", "s", ":", "\n">>
    \o PairsText(ps, 1)
    \o <<"-", "1", " ", "-", "1", "\n">>
    \o <<"F", "M", "N", ":", "\n", "-", "1", "\n">>
    \o <<"F", "o", "r", "b", "i", "d", "s", ":", "\n", "-", "1", " ", "-", "1">>

\* lines 92-105
makeRNAstructureConstraint(ps, us) ==
    <<"D", "S", ":", "\n", "-", "1", "\n">>
    \o <<"S", "S", ":", "\n">>
    \o SSText(us, 1)
    \o <<"-", "1", "\n">>
    \o <<"M", "o", "d", ":", "\n", "-", "1", "\n">>
    \o <<"P", "a", "i", "r", "s", ":", "\n">>
    \o PairsText(ps, 1)
    \o <<"-", "1", " ", "-", "1", "\n">>
    \o <<"F", "M", "N", ":", "\n", "-", "1", "\n">>
    \o <<"F", "o", "r", "b", "i", "d", "s", ":", "\n", "-", "1", " ", "-", "1">>

(***************************************************************************)
(* makeViennaRNAConstraint (lines 107-127).                                *)
(***************************************************************************)
\* lines 117-121 from the i-th pair on; acc = [ok, const], ok = FALSE once an
\* assignment const[k] = ... has raised IndexError
RECURSIVE MarkPairs(_, _, _)
MarkPairs(ps, i, acc) ==
    IF i > Len(ps) \/ ~acc.ok THEN acc
    ELSE LET x == ps[i][1]
             y == ps[i][2]
             x_ == IF x < y THEN x - 1 ELSE y - 1
             y_ == IF x < y THEN y - 1 ELSE x - 1
         IN  IF ~IndexOK(acc.const, x_)
             THEN [acc EXCEPT !.ok = FALSE]
             ELSE LET opened == SetItem(acc.const, x_, "(")
                  IN  IF ~IndexOK(opened, y_)
                      THEN [ok |-> FALSE, const |-> opened]
                      ELSE MarkPairs(ps, i + 1, [acc EXCEPT !.const = SetItem(opened, y_, ")")])

\* lines 122-123 from the i-th entry on
RECURSIVE MarkUnpaired(_, _, _)
MarkUnpaired(us, i, acc) ==
    IF i > Len(us) \/ ~acc.ok THEN acc
    ELSE IF ~IndexOK(acc.const, us[i] - 1)
         THEN [acc EXCEPT !.ok = FALSE]
         ELSE MarkUnpaired(us, i + 1, [acc EXCEPT !.const = SetItem(@, us[i] - 1, "x")])

\* makeViennaRNAConstraint with the two loops exchanged: pairs marked last
makeViennaRNAConstraintPairsLast(ps, us, length) ==
    MarkPairs(ps, 1, MarkUnpaired(us, 1, [ok |-> TRUE, const |-> [i \in 1..length |-> "."]]))

\* makeViennaRNAConstraint with the buffer one character too long
makeViennaRNAConstraintTooLong(ps, us, length) ==
    MarkUnpaired(us, 1, MarkPairs(ps, 1, [ok |-> TRUE, const |-> [i \in 1..(length + 1) |-> "."]]))

\* lines 116-127: [ok, const]; the characters of const_ are those of const
makeViennaRNAConstraint(ps, us, length) ==
    MarkUnpaired(us, 1, MarkPairs(ps, 1, [ok |-> TRUE, const |-> [i \in 1..length |-> "."]]))

(***************************************************************************)
(* The output file (lines 163-173).                                        *)
(***************************************************************************)
\* line 163: open(output, "w") creates or truncates the file, or raises OSError
\* and leaves it alone
OpenOutput ==
    /\ pc = "open"
    /\ \/ /\ out' = [state |-> "open", text |-> <<>>]
          /\ pc' = "serialize"
          /\ UNCHANGED exitVars
       \/ /\ error' = "OSError"
          /\ raisedIn' = "open"
          /\ status' = 1
          /\ pc' = "exit"
          /\ UNCHANGED out
    /\ UNCHANGED <<argVars, fastaVars, loadVars, checkVars, adjustVars, format, const>>

\* lines 164-166; args.format is first read here
SerializeRNAstructure ==
    /\ pc = "serialize"
    /\ format' = "RNAstructure"
    /\ const' = makeRNAstructureConstraint(pairs_adjusted, unpaired_adjusted)
    /\ out' = [out EXCEPT !.text = @ \o const' \o <<"\n">>]
    /\ pc' = "close"
    /\ UNCHANGED <<exitVars, argVars, fastaVars, loadVars, checkVars, adjustVars>>

\* lines 167-171; an IndexError of makeViennaRNAConstraint is not caught
SerializeVienna ==
    /\ pc = "serialize"
    /\ format' = "ViennaRNA"
    /\ LET r == makeViennaRNAConstraint(pairs_adjusted, unpaired_adjusted, Len(full_seq))
       IN  IF r.ok
           THEN /\ const' = r.const
                /\ out' = [out EXCEPT !.text = @ \o <<">">> \o seqid \o <<"\n">>
                                                  \o full_seq \o <<"\n">>
                                                  \o r.const \o <<"\n">>]
                /\ pc' = "close"
                /\ UNCHANGED exitVars
           ELSE /\ error' = "IndexError"
                /\ raisedIn' = "makeViennaRNAConstraint"
                /\ status' = 1
                /\ pc' = "exit"
                /\ UNCHANGED <<const, out>>
    /\ UNCHANGED <<argVars, fastaVars, loadVars, checkVars, adjustVars>>

\* line 173, and the return of main
Close ==
    /\ pc = "close"
    /\ out' = [out EXCEPT !.state = "closed"]
    /\ status' = 0
    /\ pc' = "exit"
    /\ UNCHANGED <<error, raisedIn, argVars, fastaVars, loadVars, checkVars, adjustVars, format, const>>

(***************************************************************************)
(* main (lines 130-173) and loadFasta (lines 37-53).                       *)
(***************************************************************************)
Offsets == (-MaxOff..MaxOff) \cup {FarOffset}

\* lines 144-146
MissingCt ==
    /\ pc = "start"
    /\ status' = 1
    /\ pc' = "exit"
    /\ UNCHANGED <<error, raisedIn, argVars, fastaVars, loadVars, checkVars, adjustVars, format, const, out>>

\* lines 147-149
MissingFasta ==
    /\ pc = "start"
    /\ status' = 1
    /\ pc' = "exit"
    /\ UNCHANGED <<error, raisedIn, argVars, fastaVars, loadVars, checkVars, adjustVars, format, const, out>>

\* line 150: both files exist, loadFasta is called
InputsExist ==
    /\ pc = "start"
    /\ pc' = "loadFasta"
    /\ UNCHANGED <<exitVars, argVars, fastaVars, loadVars, checkVars, adjustVars, format, const, out>>

\* lines 42-44
FastaBlankLine ==
    /\ pc = "loadFasta"
    /\ UNCHANGED vars

\* lines 45-47
FastaHeaderLine ==
    /\ pc = "loadFasta"
    /\ n < MaxHeaders
    /\ n' = n + 1
    /\ seqid' \in SeqIds
    /\ UNCHANGED <<pc, exitVars, argVars, full_seq, loadVars, checkVars, adjustVars, format, const, out>>

\* lines 48-49
FastaSequenceLine ==
    /\ pc = "loadFasta"
    /\ \E line \in FastaLines :
         /\ Len(full_seq) + Len(line) <= MaxLen
         /\ full_seq' = full_seq \o line
    /\ UNCHANGED <<pc, exitVars, argVars, n, seqid, loadVars, checkVars, adjustVars, format, const, out>>

\* lines 50-53, and line 153 where loadPairs is called
FastaReturn ==
    /\ pc = "loadFasta"
    /\ IF n # 1
       THEN status' = 3 /\ pc' = "exit"
       ELSE status' = status /\ pc' = "loadPairs"
    /\ UNCHANGED <<error, raisedIn, argVars, fastaVars, loadVars, checkVars, adjustVars, format, const, out>>

LoadRecordMain == LoadRecord(MainRec, SeedSymbols)

\* lines 156-158
LengthCheck ==
    /\ pc = "lengthCheck"
    /\ IF Len(sequence) # seed_length
       THEN status' = 2 /\ pc' = "exit"
       ELSE status' = status /\ pc' = "adjust"
    /\ UNCHANGED <<error, raisedIn, argVars, fastaVars, loadVars, checkVars, adjustVars, format, const, out>>

\* the state after parse_args (lines 139-143)
Init ==
    /\ pc = "start"
    /\ offset \in -MaxOff..MaxOff
    /\ seed_length \in 0..MainRec
    /\ NotExited /\ NoFasta /\ NoTable /\ NoCheck /\ NoAdjust /\ NoOutput

Next ==
    \/ MissingCt
    \/ MissingFasta
    \/ InputsExist
    \/ FastaBlankLine
    \/ FastaHeaderLine
    \/ FastaSequenceLine
    \/ FastaReturn
    \/ LoadHeaderLine
    \/ LoadBlankLine
    \/ LoadBadRecord
    \/ LoadRecordMain
    \/ LoadReturn
    \/ DoCheckPairing
    \/ LengthCheck
    \/ DoAdjustPairs
    \/ OpenOutput
    \/ SerializeRNAstructure
    \/ SerializeVienna
    \/ Close

Spec == Init /\ [][Next]_vars

(***************************************************************************)
(* checkPairing on its own: every seed sequence and raw pair list.         *)
(***************************************************************************)
\* the sequence of the rejection scenario, given with each single pair of its
\* positions and with one list of two pairs
ScenarioSeed == <<"A", "A", "C", "C", "G", "G">>

InitCheck ==
    /\ pc = "checkPairing"
    /\ \/ /\ sequence \in SeqsUpTo(Nucleotides, MaxSeq)
          /\ pairs \in SeqsUpTo((0..(Len(sequence) + 1)) \X (0..(Len(sequence) + 1)), MaxItems)
       \/ /\ sequence = ScenarioSeed
          /\ pairs \in SeqsUpTo((1..Len(ScenarioSeed)) \X (1..Len(ScenarioSeed)), 1)
                         \cup {<<(<<1, 2>>), <<3, 6>>>>}
    /\ firstLine = FALSE /\ table = <<>> /\ unpaired = <<>> /\ pairedPos = {}
    /\ NotExited /\ NoArgs /\ NoFasta /\ NoCheck /\ NoAdjust /\ NoOutput

NextCheck == DoCheckPairing

SpecCheck == InitCheck /\ [][NextCheck]_vars

(***************************************************************************)
(* adjustPairs and the serializers on their own: every list of pairs,      *)
(* every list of unpaired positions, every offset and length.              *)
(***************************************************************************)
FullOf(m) == [i \in 1..m |-> IF i % 2 = 1 THEN "G" ELSE "C"]

InitTail ==
    /\ pc = "adjust"
    /\ \/ /\ pairs_filtered \in SeqsUpTo((1..MaxPos) \X (1..MaxPos), MaxItems)
          /\ unpaired \in SeqsUpTo(1..MaxPos, MaxItems - Len(pairs_filtered))
          /\ offset \in Offsets
          /\ full_seq \in {FullOf(m) : m \in 0..MaxLen}
       \/ \* the precedence scenario
          /\ pairs_filtered = <<(<<2, 9>>)>>
          /\ unpaired = <<9>>
          /\ offset = 0
          /\ full_seq = FullOf(10)
       \/ \* the sentinel scenario
          /\ pairs_filtered = <<(<<5, 12>>)>>
          /\ unpaired = <<3, 7>>
          /\ offset = 0
          /\ full_seq = FullOf(12)
    /\ n = 1 /\ seqid \in SeqIds
    /\ firstLine = FALSE /\ table = <<>> /\ sequence = <<>> /\ pairs = <<>> /\ pairedPos = {}
    /\ n_noncanonical = 0 /\ seed_length = 0
    /\ NotExited /\ NoAdjust /\ NoOutput

NextTail ==
    \/ DoAdjustPairs
    \/ OpenOutput
    \/ SerializeRNAstructure
    \/ SerializeVienna
    \/ Close

SpecTail == InitTail /\ [][NextTail]_vars

(***************************************************************************)
(* Properties of loadPairs.                                                *)
(***************************************************************************)
Loaded == pc = "checkPairing"

\* each position has at most one record
OneRecordEach(t) == \A i, j \in 1..Len(t) : t[i][1] = t[j][1] => i = j

\* a lists partner b exactly when b lists partner a, and a # b
Symmetric(t) ==
    /\ OneRecordEach(t)
    /\ \A i \in 1..Len(t) :
         t[i][3] # 0 =>
           /\ t[i][3] # t[i][1]
           /\ \E j \in 1..Len(t) : t[j][1] = t[i][3] /\ t[j][3] = t[i][1]

\* the records are in ascending position order
Ascending(t) == \A i, j \in 1..Len(t) : i < j => t[i][1] < t[j][1]

NoDuplicates(s) == \A i, j \in 1..Len(s) : s[i] = s[j] => i = j

ClosingOnce(ps) == \A i, j \in 1..Len(ps) : ps[i][2] = ps[j][2] => i = j

C9_SymmetricAscending ==
    (Loaded /\ Symmetric(table) /\ Ascending(table)) =>
        /\ NoDuplicates(pairs)
        /\ Range(pairs) = {<<table[i][1], table[i][3]>> : i \in
                              {k \in 1..Len(table) : table[k][3] # 0 /\ table[k][1] < table[k][3]}}
        /\ NoDuplicates(unpaired)
        /\ Range(unpaired) = {table[i][1] : i \in {k \in 1..Len(table) : table[k][3] = 0}}
        /\ \A u \in Range(unpaired) : \A p \in Range(pairs) : u # p[1] /\ u # p[2]

\* positions 1 and 3 bonded, position 2 unpaired
C9_Witness ==
    /\ Loaded /\ Symmetric(table) /\ Ascending(table)
    /\ Len(table) = 3
    /\ pairs = <<(<<1, 3>>)>>
    /\ unpaired = <<2>>

(***************************************************************************)
(* Properties of main.                                                     *)
(***************************************************************************)
Failed == pc = "exit" /\ status # 0

\* the run got past loadPairs: the seed sequence has been read from the table
TableRead ==
    /\ pc \notin {"start", "loadFasta", "loadPairs"}
    /\ pc = "exit" =>
         \/ status \in {0, 2}
         \/ raisedIn \in {"checkPairing", "open", "makeViennaRNAConstraint"}

\* C1: every run that ends in failure ends before the output file is opened:
\* no failed run leaves the output file created, truncated or partly written.
C1_NoOutputOnFailure == Failed => out.state = "untouched"

\* C2: whenever the seed sequence read from the table is not end - start long,
\* the run ends with the length-mismatch error, exit status 2, and in no other
\* way, whatever pairs the table holds.
C2_MismatchExitsTwo ==
    (pc = "exit" /\ TableRead /\ Len(sequence) # seed_length) =>
        (status = 2 /\ error = "")

(***************************************************************************)
(* Properties of checkPairing.                                             *)
(***************************************************************************)
\* Watson-Crick and wobble pairs, either way round
IsCanonical(a, b) ==
    {a, b} \in {{"A", "U"}, {"A", "T"}, {"C", "G"}, {"G", "U"}, {"G", "T"}}

CheckReturned == pc = "lengthCheck"

\* C4: the set checkPairing returns holds exactly the raw pairs whose symbols
\* seq[x-1], seq[y-1] are canonical, nothing else, and the number of entries of
\* the raw list that are not in it is the count reported.
C4_FilterIsSubset ==
    CheckReturned =>
        /\ NoDuplicates(pairs_filtered)
        /\ Range(pairs_filtered) \subseteq Range(pairs)
        /\ Range(pairs_filtered) =
             {p \in Range(pairs) : IsCanonical(Item(sequence, p[1] - 1), Item(sequence, p[2] - 1))}
        /\ Cardinality({i \in 1..Len(pairs) : pairs[i] \notin Range(pairs_filtered)})
             = n_noncanonical

\* sequence AACCGG with the pair (1,2): nothing is kept, one pair is counted
C4_Witness ==
    /\ CheckReturned
    /\ sequence = ScenarioSeed
    /\ pairs = <<(<<1, 2>>)>>
    /\ pairs_filtered = <<>>
    /\ n_noncanonical = 1

(***************************************************************************)
(* Properties of adjustPairs.                                              *)
(***************************************************************************)
\* adjustPairs has returned
Adjusted == pc \in {"open", "serialize", "close", "exit"}

\* C6: adjustPairs never fails, whatever the offset, and returns as many pairs
\* and unpaired entries as it was given, each value the input value plus the
\* offset: taking the offset away again gives the seed-local position, and a
\* position stays in its pair, or unpaired, as it was.
C6_AdjustRoundTrip ==
    /\ pc = "adjust" => ENABLED DoAdjustPairs
    /\ pc = "open" => NotExited
    /\ Adjusted =>
         /\ Len(pairs_adjusted) = Len(pairs_filtered)
         /\ Len(unpaired_adjusted) = Len(unpaired)
         /\ \A i \in 1..Len(pairs_adjusted) :
              /\ Len(pairs_adjusted[i]) = 2
              /\ pairs_adjusted[i][1] - offset = pairs_filtered[i][1]
              /\ pairs_adjusted[i][2] - offset = pairs_filtered[i][2]
         /\ \A i \in 1..Len(unpaired_adjusted) : unpaired_adjusted[i] - offset = unpaired[i]

\* a negative offset applied to a pair and to an unpaired position
C6_Witness ==
    /\ pc = "open"
    /\ offset < 0
    /\ Len(pairs_adjusted) = 1 /\ pairs_adjusted[1][1] # pairs_adjusted[1][2]
    /\ Len(unpaired_adjusted) = 1

(***************************************************************************)
(* Properties of makeRNAstructureConstraint.                               *)
(***************************************************************************)
\* the fields of text s between the separators sep, as Python's s.split(sep)
RECURSIVE SplitFrom(_, _, _, _)
SplitFrom(s, sep, i, field) ==
    IF i > Len(s) THEN <<field>>
    ELSE IF s[i] = sep
         THEN <<field>> \o SplitFrom(s, sep, i + 1, <<>>)
         ELSE SplitFrom(s, sep, i + 1, Append(field, s[i]))

Split(s, sep) == SplitFrom(s, sep, 1, <<>>)

IsDigit(c) == \E d \in 1..10 : Digit[d] = c

DigitValue(c) == (CHOOSE d \in 1..10 : Digit[d] = c) - 1

RECURSIVE NatValue(_)
NatValue(s) == IF Len(s) = 0 THEN 0 ELSE 10 * NatValue(SubSeq(s, 1, Len(s) - 1)) + DigitValue(s[Len(s)])

IsNatText(s) ==
    /\ Len(s) > 0
    /\ \A i \in 1..Len(s) : IsDigit(s[i])
    /\ Len(s) > 1 => s[1] # "0"

\* the text s is the decimal numeral of the integer k
Denotes(s, k) ==
    IF Len(s) > 0 /\ s[1] = "-"
    THEN /\ IsNatText(Tail(s))
         /\ k < 0
         /\ NatValue(Tail(s)) = -k
    ELSE /\ IsNatText(s)
         /\ NatValue(s) = k

RNAstructureDone == format = "RNAstructure" /\ pc \in {"close", "exit"}

SentinelOne == <<"-", "1">>
SentinelPair == <<"-", "1", " ", "-", "1">>

\* C5: the text of Grammar A is, line by line: DS: and -1; SS:, every unpaired
\* position in input order, and -1; Mod: and -1; Pairs:, every pair as "x y" in
\* input order, and -1 -1; FMN: and -1; Forbids: and -1 -1, with no newline
\* after it.
C5_GrammarALayout ==
    RNAstructureDone =>
        LET L == Split(const, "\n")
            nu == Len(unpaired_adjusted)
            np == Len(pairs_adjusted)
        IN  /\ Len(L) = 12 + nu + np
            /\ L[1] = <<"D", "S", ":">>
            /\ L[2] = SentinelOne
            /\ L[3] = <<"S", "S", ":">>
            /\ \A i \in 1..nu : Denotes(L[3 + i], unpaired_adjusted[i])
            /\ L[4 + nu] = SentinelOne
            /\ L[5 + nu] = <<"M", "o", "d", ":">>
            /\ L[6 + nu] = SentinelOne
            /\ L[7 + nu] = <<"P", "a", "i", "r", "s", ":">>
            /\ \A i \in 1..np :
                 LET F == Split(L[7 + nu + i], " ")
                 IN  /\ Len(F) = 2
                     /\ Denotes(F[1], pairs_adjusted[i][1])
                     /\ Denotes(F[2], pairs_adjusted[i][2])
            /\ L[8 + nu + np] = SentinelPair
            /\ L[9 + nu + np] = <<"F", "M", "N", ":">>
            /\ L[10 + nu + np] = SentinelOne
            /\ L[11 + nu + np] = <<"F", "o", "r", "b", "i", "d", "s", ":">>
            /\ L[12 + nu + np] = SentinelPair
            /\ const[Len(const)] # "\n"

\* pairs [(5,12)], unpaired [3,7], offset 0
C5_Witness ==
    /\ RNAstructureDone
    /\ pairs_adjusted = <<(<<5, 12>>)>>
    /\ unpaired_adjusted = <<3, 7>>
    /\ Split(const, "\n")[4] = <<"3">>
    /\ Split(const, "\n")[5] = <<"7">>
    /\ Split(const, "\n")[10] = <<"5", " ", "1", "2">>

(***************************************************************************)
(* Properties of makeViennaRNAConstraint.                                  *)
(***************************************************************************)
ViennaDone == format = "ViennaRNA" /\ pc \in {"close", "exit"} /\ error = ""

InRange(length) ==
    /\ \A i \in 1..Len(pairs_adjusted) :
         pairs_adjusted[i][1] \in 1..length /\ pairs_adjusted[i][2] \in 1..length
    /\ \A i \in 1..Len(unpaired_adjusted) : unpaired_adjusted[i] \in 1..length

PrecedenceScenario ==
    pairs_adjusted = <<(<<2, 9>>)>> /\ unpaired_adjusted = <<9>> /\ Len(full_seq) = 10

\* every position p listed as unpaired holds x at index p-1
UnpairedMarked ==
    \A i \in 1..Len(unpaired_adjusted) : Item(const, unpaired_adjusted[i] - 1) = "x"

\* C3 as stated: in Grammar B the unpaired markers are applied after all pair
\* markers: every position p listed as unpaired ends as x at index p-1, also
\* when p is an end of a listed pair; length 10, pairs {(2,9)}, unpaired {9}
\* gives .(.......x
C3_UnpairedWinsAsStated ==
    ViennaDone =>
        /\ UnpairedMarked
        /\ PrecedenceScenario => const = <<".", "(", ".", ".", ".", ".", ".", ".", ".", "x">>

\* C3 amended: as stated, but length 10, pairs {(2,9)}, unpaired {9} gives
\* .(......x. (the x at index 8, the ninth character)
C3_UnpairedWins ==
    ViennaDone =>
        /\ UnpairedMarked
        /\ PrecedenceScenario => const = <<".", "(", ".", ".", ".", ".", ".", ".", "x", ".">>

\* the precedence scenario: position 9 closes the pair (2,9) and is unpaired
C3_Witness ==
    /\ ViennaDone
    /\ pairs_adjusted = <<(<<2, 9>>)>>
    /\ unpaired_adjusted = <<9>>
    /\ Len(const) = 10
    /\ const[9] = "x"

\* C10: when every pair end and every unpaired position lies in 1..length, the
\* call returns a string of exactly length characters out of . ( ) x, and every
\* index that is not p-1 for a listed pair end or unpaired position p holds a dot.
C10_ViennaFrame ==
    (format = "ViennaRNA" /\ InRange(Len(full_seq))) =>
        /\ raisedIn # "makeViennaRNAConstraint"
        /\ ViennaDone =>
             /\ Len(const) = Len(full_seq)
             /\ \A k \in 1..Len(const) : const[k] \in {".", "(", ")", "x"}
             /\ \A k \in 1..Len(const) :
                  (/\ \A i \in 1..Len(pairs_adjusted) :
                        pairs_adjusted[i][1] # k /\ pairs_adjusted[i][2] # k
                   /\ \A i \in 1..Len(unpaired_adjusted) : unpaired_adjusted[i] # k)
                  => const[k] = "."

\* a pair and an unpaired position in range, and a position left untouched
C10_Witness ==
    /\ ViennaDone
    /\ InRange(Len(full_seq))
    /\ Len(pairs_adjusted) = 1 /\ Len(unpaired_adjusted) = 1
    /\ \E k \in 1..Len(const) : const[k] = "."
    /\ \E k \in 1..Len(const) : const[k] = "("
    /\ \E k \in 1..Len(const) : const[k] = "x"

(***************************************************************************)
(* Orientation of the pairs in the two grammars.                           *)
(***************************************************************************)
Lower(p) == IF p[1] < p[2] THEN p[1] ELSE p[2]
Higher(p) == IF p[1] < p[2] THEN p[2] ELSE p[1]

\* C8: both serializers render a pair (x, y), whatever its orientation, with the
\* lower position as the opening side and the higher position as the closing
\* side: Grammar A writes "lower higher", Grammar B puts ( at the lower and ) at
\* the higher position.
C8_LowerOpens ==
    /\ RNAstructureDone =>
         LET L == Split(const, "\n")
         IN  \A i \in 1..Len(pairs_adjusted) :
               LET F == Split(L[7 + Len(unpaired_adjusted) + i], " ")
               IN  /\ Denotes(F[1], Lower(pairs_adjusted[i]))
                   /\ Denotes(F[2], Higher(pairs_adjusted[i]))
    /\ (ViennaDone /\ InRange(Len(full_seq)) /\ Len(pairs_adjusted) = 1
          /\ unpaired_adjusted = <<>> /\ pairs_adjusted[1][1] # pairs_adjusted[1][2]) =>
         /\ const[Lower(pairs_adjusted[1])] = "("
         /\ const[Higher(pairs_adjusted[1])] = ")"

====
